---------------------------- MODULE Spec2Model ----------------------------
(***************************************************************************)
(* A model of esbuild-plugin-html (src/src/index.ts): the onStart/onEnd    *)
(* callbacks of htmlPlugin and the helpers they call.                      *)
(*                                                                         *)
(* JavaScript strings are sequences of one-character strings, so that      *)
(* String.prototype.replace, RegExp matching and the path functions are    *)
(* computed character by character.  Static markup of a template literal   *)
(* (such as  <script src="  ) is kept as one element of the sequence: it   *)
(* is never searched, and none of it starts with a character that is       *)
(* special after "$" in a replacement string.  Entry-point specifiers are  *)
(* only compared for equality and stay atomic strings.  The path module is *)
(* the POSIX one (path.sep = "/").                                         *)
(***************************************************************************)
EXTENDS Integers, Sequences, FiniteSets, TLC

---------------------------------------------------------------------------
(* JavaScript values *)

\* undefined, for a field holding a character sequence
UNDEFINED == <<"undefined">>
\* undefined, for a field holding an atomic value
NONE == "undefined"
EMPTY == <<>>

\* JS truthiness of a string value: undefined and '' are falsy
Truthy(s) == s /= UNDEFINED /\ s /= EMPTY

\* String.prototype.indexOf: the 1-based position of the first occurrence, 0 if none
IndexOf(str, pat) ==
    LET cand == {i \in 1..(Len(str) - Len(pat) + 1) :
                    SubSeq(str, i, i + Len(pat) - 1) = pat}
    IN IF cand = {} THEN 0 ELSE CHOOSE i \in cand : \A j \in cand : i <= j

Includes(str, pat) == IndexOf(str, pat) /= 0

EndsWith(str, pat) ==
    Len(str) >= Len(pat) /\ SubSeq(str, Len(str) - Len(pat) + 1, Len(str)) = pat

\* Array.prototype.includes
ArrayIncludes(arr, x) == \E i \in 1..Len(arr) : arr[i] = x

RECURSIVE Flatten(_)
Flatten(seqs) == IF seqs = <<>> THEN <<>> ELSE Head(seqs) \o Flatten(Tail(seqs))

\* the grave accent and the apostrophe, as characters of a string
GRAVE == "&#96;"
APOS == "&#39;"

\* GetSubstitution of ECMAScript for a string pattern (no capture groups):
\* $$ is "$", $& the match, $ followed by a grave accent the text before the
\* match, $ followed by an apostrophe the text after it; every other "$" is
\* literal.
RECURSIVE GetSubstitution(_, _, _, _)
GetSubstitution(matched, before, after, repl) ==
    LET i == IndexOf(repl, <<"$">>)
    IN IF i = 0 \/ i = Len(repl) THEN repl
       ELSE LET c == repl[i + 1]
                head == SubSeq(repl, 1, i - 1)
                rest == SubSeq(repl, i + 2, Len(repl))
            IN CASE c = "$" -> head \o <<"$">> \o GetSubstitution(matched, before, after, rest)
                 [] c = "&" -> head \o matched \o GetSubstitution(matched, before, after, rest)
                 [] c = GRAVE -> head \o before \o GetSubstitution(matched, before, after, rest)
                 [] c = APOS -> head \o after \o GetSubstitution(matched, before, after, rest)
                 [] OTHER -> head \o <<"$">>
                             \o GetSubstitution(matched, before, after,
                                                SubSeq(repl, i + 1, Len(repl)))

\* String.prototype.replace(searchValue: string, replaceValue: string):
\* only the first occurrence is replaced
StringReplace(str, searchValue, replaceValue) ==
    LET i == IndexOf(str, searchValue)
    IN IF i = 0 THEN str
       ELSE LET before == SubSeq(str, 1, i - 1)
                after == SubSeq(str, i + Len(searchValue), Len(str))
            IN before \o GetSubstitution(searchValue, before, after, replaceValue) \o after

---------------------------------------------------------------------------
(* The path module (POSIX) *)

SLASH == "/"
DOT == <<".">>
DOTDOT == <<".", ".">>
\* process.cwd(), as segments
Cwd == << <<"c", "w", "d">> >>

RECURSIVE Split(_)
Split(p) ==
    LET i == IndexOf(p, <<SLASH>>)
    IN IF i = 0 THEN <<p>>
       ELSE <<SubSeq(p, 1, i - 1)>> \o Split(SubSeq(p, i + 1, Len(p)))

RECURSIVE JoinSegs(_)
JoinSegs(segs) ==
    IF segs = <<>> THEN <<>>
    ELSE IF Len(segs) = 1 THEN segs[1]
    ELSE segs[1] \o <<SLASH>> \o JoinSegs(Tail(segs))

IsAbsolute(p) == Len(p) >= 1 /\ p[1] = SLASH

\* normalizeString: drops "" and ".", resolves ".." against the segments so far
RECURSIVE NormalizeSegs(_, _, _)
NormalizeSegs(segs, acc, allowAboveRoot) ==
    IF segs = <<>> THEN acc
    ELSE LET s == Head(segs)
         IN IF s = <<>> \/ s = DOT
              THEN NormalizeSegs(Tail(segs), acc, allowAboveRoot)
            ELSE IF s = DOTDOT
              THEN IF acc /= <<>> /\ acc[Len(acc)] /= DOTDOT
                     THEN NormalizeSegs(Tail(segs), SubSeq(acc, 1, Len(acc) - 1), allowAboveRoot)
                   ELSE IF allowAboveRoot
                     THEN NormalizeSegs(Tail(segs), Append(acc, s), allowAboveRoot)
                   ELSE NormalizeSegs(Tail(segs), acc, allowAboveRoot)
            ELSE NormalizeSegs(Tail(segs), Append(acc, s), allowAboveRoot)

\* path.normalize
PathNormalize(p) ==
    IF p = <<>> THEN DOT
    ELSE LET abs == IsAbsolute(p)
             trailing == p[Len(p)] = SLASH
             body == JoinSegs(NormalizeSegs(Split(p), <<>>, ~abs))
         IN IF body = <<>>
              THEN IF abs THEN <<SLASH>> ELSE IF trailing THEN <<".", SLASH>> ELSE DOT
            ELSE (IF abs THEN <<SLASH>> ELSE <<>>) \o body
                 \o (IF trailing THEN <<SLASH>> ELSE <<>>)

\* path.join of two segments: empty arguments are skipped
PathJoin(a, b) ==
    LET joined == IF a = <<>> THEN b
                  ELSE IF b = <<>> THEN a
                  ELSE a \o <<SLASH>> \o b
    IN PathNormalize(joined)

\* the position of the last "/" of p, 0 if none
LastSlash(p) ==
    LET at == {i \in 1..Len(p) : p[i] = SLASH}
    IN IF at = {} THEN 0 ELSE CHOOSE i \in at : \A j \in at : j <= i

\* path.dirname (of a path without trailing slash)
PathDirname(p) ==
    LET i == LastSlash(p)
    IN IF i = 0 THEN DOT
       ELSE IF i = 1 THEN <<SLASH>>
       ELSE SubSeq(p, 1, i - 1)

\* path.parse (of a path without trailing slash): dir, base, name, ext
PathParse(p) ==
    LET i == LastSlash(p)
        base == SubSeq(p, i + 1, Len(p))
        dir == IF i = 0 THEN <<>> ELSE IF i = 1 THEN <<SLASH>> ELSE SubSeq(p, 1, i - 1)
        dots == {k \in 1..Len(base) : base[k] = "."}
        lastDot == IF dots = {} THEN 0 ELSE CHOOSE k \in dots : \A j \in dots : j <= k
        hasExt == lastDot > 1 /\ base /= DOTDOT
    IN [dir |-> dir,
        base |-> base,
        name |-> IF hasExt THEN SubSeq(base, 1, lastDot - 1) ELSE base,
        ext |-> IF hasExt THEN SubSeq(base, lastDot, Len(base)) ELSE <<>>]

\* path.resolve of one path against process.cwd(), as segments
ResolveSegs(p) ==
    IF IsAbsolute(p) THEN NormalizeSegs(Split(p), <<>>, FALSE)
    ELSE NormalizeSegs(Cwd \o Split(p), <<>>, FALSE)

RECURSIVE CommonPrefixLen(_, _)
CommonPrefixLen(a, b) ==
    IF a = <<>> \/ b = <<>> \/ Head(a) /= Head(b) THEN 0
    ELSE 1 + CommonPrefixLen(Tail(a), Tail(b))

\* path.relative
PathRelative(from, to) ==
    LET f == ResolveSegs(from)
        t == ResolveSegs(to)
        n == CommonPrefixLen(f, t)
        ups == [k \in 1..(Len(f) - n) |-> DOTDOT]
    IN JoinSegs(ups \o SubSeq(t, n + 1, Len(t)))

\* posixJoin: path.join, and on a platform whose separator is not "/" the
\* separators are converted; path.sep is "/" here, so the joined path is returned.
posixJoin(a, b) == PathJoin(a, b)

---------------------------------------------------------------------------
(* Regular expressions *)

\* REGEXES: each source text is one element of a regular expression's source
DIR_REGEX == "(?<dir>\\S+\\/?)"
HASH_REGEX == "(?<hash>[A-Z2-7]{8})"
NAME_REGEX == "(?<name>[^\\s\\/]+)"

\* the {8} of HASH_REGEX
HashLen == 8
\* the class [A-Z2-7] of HASH_REGEX
HashChars == {"A", "B", "C", "D", "E", "F", "G", "H", "I", "J", "K", "L", "M",
              "N", "O", "P", "Q", "R", "S", "T", "U", "V", "W", "X", "Y", "Z",
              "2", "3", "4", "5", "6", "7"}
\* the class \s
SpaceChars == {" ", "\t", "\n"}
\* the class [-[\]{}()*+?.,\\^$|#\s] of escapeRegExp
MetaChars == {"-", "[", "]", "{", "}", "(", ")", "*", "+", "?", ".", ",", "\\",
              "^", "$", "|", "#"} \cup SpaceChars

BACKSLASH == "\\"
PH_HASH == <<"[", "h", "a", "s", "h", "]">>
PH_NAME == <<"[", "n", "a", "m", "e", "]">>
PH_DIR == <<"[", "d", "i", "r", "]">>
ESC_PH_HASH == <<"\\", "[", "h", "a", "s", "h", "\\", "]">>
ESC_PH_NAME == <<"\\", "[", "n", "a", "m", "e", "\\", "]">>
ESC_PH_DIR == <<"\\", "[", "d", "i", "r", "\\", "]">>

\* escapeRegExp: text.replace(/[-[\]{}()*+?.,\\^$|#\s]/g, '\\$&')
RECURSIVE escapeRegExp(_)
escapeRegExp(text) ==
    IF text = <<>> THEN <<>>
    ELSE (IF Head(text) \in MetaChars THEN <<BACKSLASH, Head(text)>> ELSE <<Head(text)>>)
         \o escapeRegExp(Tail(text))

\* new RegExp(source), for a source made of escaped characters, plain
\* characters and the three groups of REGEXES: the items to match in order
RECURSIVE CompileRegExp(_)
CompileRegExp(source) ==
    IF source = <<>> THEN <<>>
    ELSE IF Head(source) = BACKSLASH /\ Len(source) >= 2
         THEN <<[kind |-> "char", c |-> source[2]]>>
              \o CompileRegExp(SubSeq(source, 3, Len(source)))
    ELSE IF Head(source) \in {DIR_REGEX, HASH_REGEX, NAME_REGEX}
         THEN <<[kind |-> Head(source), c |-> ""]>> \o CompileRegExp(Tail(source))
    ELSE <<[kind |-> "char", c |-> Head(source)]>> \o CompileRegExp(Tail(source))

NoMatch == [ok |-> FALSE, name |-> UNDEFINED, dir |-> UNDEFINED]

\* the length of the longest run of characters outside `excluded` from position si
RECURSIVE RunLength(_, _, _)
RunLength(str, si, excluded) ==
    IF si > Len(str) \/ str[si] \in excluded THEN 0
    ELSE 1 + RunLength(str, si + 1, excluded)

\* Backtracking match of items pi.. of `re` at position si of `str`: quantifiers
\* are greedy, the first alternative that lets the rest match wins.
RECURSIVE MatchHere(_, _, _, _, _)
MatchHere(re, str, pi, si, caps) ==
    IF pi > Len(re) THEN [caps EXCEPT !.ok = TRUE]
    ELSE
      LET item == re[pi] IN
      CASE item.kind = "char" ->
             IF si <= Len(str) /\ str[si] = item.c
               THEN MatchHere(re, str, pi + 1, si + 1, caps)
             ELSE NoMatch
        [] item.kind = HASH_REGEX ->
             IF si + HashLen - 1 <= Len(str)
                /\ \A k \in si..(si + HashLen - 1) : str[k] \in HashChars
               THEN MatchHere(re, str, pi + 1, si + HashLen, caps)
             ELSE NoMatch
        [] item.kind = NAME_REGEX ->
             \* [^\s\/]+
             LET RECURSIVE Try(_)
                 Try(n) ==
                   IF n < 1 THEN NoMatch
                   ELSE LET r == MatchHere(re, str, pi + 1, si + n,
                                     [caps EXCEPT !.name = SubSeq(str, si, si + n - 1)])
                        IN IF r.ok THEN r ELSE Try(n - 1)
             IN Try(RunLength(str, si, SpaceChars \cup {SLASH}))
        [] item.kind = DIR_REGEX ->
             \* \S+ then \/?
             LET RECURSIVE Try(_)
                 Try(n) ==
                   IF n < 1 THEN NoMatch
                   ELSE LET withSlash ==
                              IF si + n <= Len(str) /\ str[si + n] = SLASH
                                THEN MatchHere(re, str, pi + 1, si + n + 1,
                                       [caps EXCEPT !.dir = SubSeq(str, si, si + n)])
                              ELSE NoMatch
                            without == MatchHere(re, str, pi + 1, si + n,
                                         [caps EXCEPT !.dir = SubSeq(str, si, si + n - 1)])
                        IN IF withSlash.ok THEN withSlash
                           ELSE IF without.ok THEN without
                           ELSE Try(n - 1)
             IN Try(RunLength(str, si, SpaceChars))

\* RegExp.prototype.exec without flags: the match at the leftmost position
RECURSIVE ExecFrom(_, _, _)
ExecFrom(re, str, start) ==
    IF start > Len(str) + 1 THEN NoMatch
    ELSE LET r == MatchHere(re, str, 1, start, NoMatch)
         IN IF r.ok THEN r ELSE ExecFrom(re, str, start + 1)

RegExpExec(re, str) == ExecFrom(re, str, 1)
\* RegExp.prototype.test
RegExpTest(re, str) == RegExpExec(re, str).ok

---------------------------------------------------------------------------
(* Build metadata and entry-point resolution *)

\* One output of metafile.outputs, flattened as { path, ...value }: the output
\* path, the entry point that produced it (or NONE) and its CSS bundle (or
\* UNDEFINED).  A metafile is [defined, outputs]; outputs lists the entries in
\* the iteration order of Object.entries.
Outputs(metafile) == IF metafile.defined THEN metafile.outputs ELSE <<>>

NoMetafile == [defined |-> FALSE, outputs |-> <<>>]

\* a collection that follows the order of entryPoints
collectEntrypointsInRequestedOrder(htmlFileConfiguration, metafile) ==
    Flatten([k \in DOMAIN htmlFileConfiguration.entryPoints |->
                SelectSeq(Outputs(metafile),
                          LAMBDA value :
                             value.entryPoint = htmlFileConfiguration.entryPoints[k])])

\* collectEntrypoints
collectEntrypoints(htmlFileConfiguration, metafile) ==
    SelectSeq(Outputs(metafile),
              LAMBDA value :
                 IF value.entryPoint \in {NONE, ""} THEN FALSE
                 ELSE ArrayIncludes(htmlFileConfiguration.entryPoints, value.entryPoint))

\* name ?? ''
OrEmpty(v) == IF v = UNDEFINED THEN <<>> ELSE v

\* findVariablesRegexString of findNameRelatedOutputFiles
findVariablesRegexString(entryNames) ==
    StringReplace(
        StringReplace(
            StringReplace(escapeRegExp(entryNames), ESC_PH_HASH, <<HASH_REGEX>>),
            ESC_PH_NAME, <<NAME_REGEX>>),
        ESC_PH_DIR, <<DIR_REGEX>>)

\* findFilesWithSameVariablesRegexString of findNameRelatedOutputFiles
findFilesWithSameVariablesRegexString(entryNames, name, dir) ==
    StringReplace(
        escapeRegExp(StringReplace(StringReplace(entryNames, PH_NAME, OrEmpty(name)),
                                   PH_DIR, OrEmpty(dir))),
        ESC_PH_HASH, <<HASH_REGEX>>)

\* findNameRelatedOutputFiles
findNameRelatedOutputFiles(entrypoint, metafile, entryNames) ==
    LET pathOfMatchedOutput == PathParse(entrypoint.path) IN
    IF Truthy(entryNames)
    THEN LET joinedPathOfMatch == posixJoin(pathOfMatchedOutput.dir, pathOfMatchedOutput.name)
             findVariablesRegex == CompileRegExp(findVariablesRegexString(entryNames))
             match == RegExpExec(findVariablesRegex, joinedPathOfMatch)
             findFilesWithSameVariablesRegex ==
                 CompileRegExp(findFilesWithSameVariablesRegexString(entryNames, match.name, match.dir))
         IN SelectSeq(Outputs(metafile),
                      LAMBDA o : RegExpTest(findFilesWithSameVariablesRegex, o.path))
    ELSE SelectSeq(Outputs(metafile),
                   LAMBDA o : /\ PathParse(o.path).name = pathOfMatchedOutput.name
                              /\ PathParse(o.path).dir = pathOfMatchedOutput.dir)

\* a set that always adds an entry
MapSetAppend(map, key, value) == Append(map, [key |-> key, value |-> value])

\* Map.prototype.set on a Map kept as the sequence of its values in insertion
\* order, keyed by path: an existing key keeps its position and takes the value
MapSet(map, key, value) ==
    IF \E i \in 1..Len(map) : map[i].key = key
    THEN [i \in 1..Len(map) |-> IF map[i].key = key THEN [key |-> key, value |-> value] ELSE map[i]]
    ELSE Append(map, [key |-> key, value |-> value])

RECURSIVE MapSetAll(_, _)
MapSetAll(map, items) ==
    IF items = <<>> THEN map
    ELSE MapSetAll(MapSet(map, Head(items).path, Head(items)), Tail(items))

\* [...map.values()]
MapValues(map) == [i \in 1..Len(map) |-> map[i].value]

\* the body of the loop over collectedEntrypoints of onEnd: the values of
\* relatedOutputFiles for one entrypoint
relatedOutputFiles(htmlFileConfiguration, entrypoint, metafile, entryNames) ==
    LET m0 == MapSet(<<>>, entrypoint.path, entrypoint)
        m1 == IF htmlFileConfiguration.findRelatedCssFiles /\ Truthy(entrypoint.cssBundle)
                THEN MapSet(m0, entrypoint.cssBundle,
                            [path |-> entrypoint.cssBundle, entryPoint |-> NONE,
                             cssBundle |-> UNDEFINED])
              ELSE m0
        m2 == IF htmlFileConfiguration.findRelatedOutputFiles
                THEN MapSetAll(m1, findNameRelatedOutputFiles(entrypoint, metafile, entryNames))
              ELSE m1
    IN MapValues(m2)

\* collectedOutputFiles = [...collectedOutputFiles, ...relatedOutputFiles.values()]
AppendRelated(collected, related) == collected \o related

\* the loop over collectedEntrypoints of onEnd; its guard  if (!entrypoint)
\* throw  never fires, every element of collectedEntrypoints being an object
RECURSIVE collectOutputFiles(_, _, _, _, _)
collectOutputFiles(htmlFileConfiguration, entrypoints, metafile, entryNames, collected) ==
    IF entrypoints = <<>> THEN collected
    ELSE collectOutputFiles(htmlFileConfiguration, Tail(entrypoints), metafile, entryNames,
            AppendRelated(collected,
                relatedOutputFiles(htmlFileConfiguration, Head(entrypoints), metafile, entryNames)))

\* htmlPlugin: the defaults set on each file configuration; a property the
\* caller gave wins over the default
WithDefaults(given) ==
    [given EXCEPT
        !.findRelatedOutputFiles = IF @ = "unset" THEN FALSE ELSE @ = "true",
        !.findRelatedCssFiles = IF @ = "unset" THEN TRUE ELSE @ = "true"]

---------------------------------------------------------------------------
(* Template rendering and injection *)

defaultHtmlTemplate ==
    <<"\n", "<", "!", "D", "O", "C", "T", "Y", "P", "E", " ", "h", "t", "m",
      "l", ">", "\n", "<", "h", "t", "m", "l", ">", "\n", " ", " ", "<", "h",
      "e", "a", "d", ">", "\n", " ", " ", " ", " ", "<", "m", "e", "t", "a",
      " ", "c", "h", "a", "r", "s", "e", "t", "=", "\"", "u", "t", "f", "-",
      "8", "\"", " ", "/", ">", "\n", " ", " ", "<", "/", "h", "e", "a", "d",
      ">", "\n", " ", " ", "<", "b", "o", "d", "y", ">", "\n", " ", " ", "<",
      "/", "b", "o", "d", "y", ">", "\n", "<", "/", "h", "t", "m", "l", ">",
      "\n">>

TITLE_CLOSE == <<"<", "/", "t", "i", "t", "l", "e", ">">>
EXT_JS == <<".", "j", "s">>
EXT_CSS == <<".", "c", "s", "s">>

\* lodash.template: the text of the interpolation  <%= define.v %>
INTERPOLATE_OPEN == <<"<", "%", "=">>
INTERPOLATE_CLOSE == <<"%", ">">>
DEFINE_V == <<"d", "e", "f", "i", "n", "e", ".", "v">>

\* lodashTemplate(template)({ define }): the first interpolation is replaced by
\* the value of its expression; an expression other than define.v throws.
\* Returns [threw, value].
lodashTemplate(template, define) ==
    LET i == IndexOf(template, INTERPOLATE_OPEN)
        rest == SubSeq(template, i + Len(INTERPOLATE_OPEN), Len(template))
        j == IndexOf(rest, INTERPOLATE_CLOSE)
    IN IF i = 0 \/ j = 0 THEN [threw |-> FALSE, value |-> template]
       ELSE IF SubSeq(rest, 1, j - 1) /= DEFINE_V THEN [threw |-> TRUE, value |-> <<>>]
       ELSE [threw |-> FALSE,
             value |-> SubSeq(template, 1, i - 1) \o define
                       \o SubSeq(rest, j + Len(INTERPOLATE_CLOSE), Len(rest))]

\* renderTemplate; `files` maps the paths of the template files that exist to
\* their contents.  Returns [threw, value].
renderTemplate(htmlFileConfiguration, files) ==
    LET htmlTemplate == htmlFileConfiguration.htmlTemplate
        customHtmlTemplate ==
            IF Truthy(htmlTemplate) /\ htmlTemplate \in DOMAIN files
              THEN files[htmlTemplate]
            ELSE IF Truthy(htmlTemplate) THEN htmlTemplate ELSE <<>>
        template == IF customHtmlTemplate /= <<>> THEN customHtmlTemplate
                    ELSE defaultHtmlTemplate
    IN IF htmlFileConfiguration.define = UNDEFINED
         THEN [threw |-> FALSE, value |-> template]
       ELSE lodashTemplate(template, htmlFileConfiguration.define)

\* joinWithPublicPath
joinWithPublicPath(publicPath, relPath) ==
    LET rel == PathNormalize(relPath)
        pub == IF ~Truthy(publicPath) THEN DOT ELSE publicPath
        slash == IF EndsWith(pub, <<SLASH>>) THEN <<>> ELSE <<SLASH>>
    IN pub \o slash \o rel

SCRIPT_SRC == "<script src=\""
SCRIPT_MODULE_END == "\" type=\"module\"></script>"
SCRIPT_DEFER_END == "\" defer></script>"
LINK_HREF == "<link rel=\"stylesheet\" href=\""
LINK_END == "\">"

\* targetPath of injectFilesToHtmlTemplate
targetPath(filepath, outDir, publicPath, htmlFileConfiguration) ==
    IF Truthy(publicPath)
      THEN joinWithPublicPath(publicPath, PathRelative(outDir, filepath))
    ELSE LET htmlFileDirectory == posixJoin(outDir, htmlFileConfiguration.filename)
         IN PathRelative(PathDirname(htmlFileDirectory), filepath)

\* scriptElement of injectFilesToHtmlTemplate, for an asset whose ext is ".js"
scriptElement(target, scriptLoading) ==
    IF scriptLoading = "module"
      THEN <<SCRIPT_SRC>> \o target \o <<SCRIPT_MODULE_END>>
    ELSE IF scriptLoading = NONE \/ scriptLoading = "" \/ scriptLoading = "defer"
      THEN <<SCRIPT_SRC>> \o target \o <<SCRIPT_DEFER_END>>
    ELSE <<>>

\* [scriptElement, linkCssElement] of one asset
elementsOf(outputFile, outDir, publicPath, htmlFileConfiguration) ==
    LET filepath == outputFile.path
        target == targetPath(filepath, outDir, publicPath, htmlFileConfiguration)
        ext == PathParse(filepath).ext
    IN IF ext = EXT_JS
         THEN <<scriptElement(target, htmlFileConfiguration.scriptLoading), <<>>>>
       ELSE IF ext = EXT_CSS
         THEN << <<>>, <<LINK_HREF>> \o target \o <<LINK_END>> >>
       ELSE << <<>>, <<>> >>

\* assets.map(...) of injectFilesToHtmlTemplate
elementsToInject(assets, outDir, publicPath, htmlFileConfiguration) ==
    [i \in 1..Len(assets) |-> elementsOf(assets[i], outDir, publicPath, htmlFileConfiguration)]

\* .flat().join("")
elementsStringToInject(elements) == Flatten(Flatten(elements))

\* a splice that puts the elements before </title>
spliceElementsBeforeTitle(htmlTemplate, elementsString) ==
    StringReplace(htmlTemplate, TITLE_CLOSE, elementsString \o TITLE_CLOSE)

\* a splice that appends the elements to a template without </title>
spliceElementsOrAppend(htmlTemplate, elementsString) ==
    IF Includes(htmlTemplate, TITLE_CLOSE)
      THEN StringReplace(htmlTemplate, TITLE_CLOSE, TITLE_CLOSE \o elementsString)
    ELSE htmlTemplate \o elementsString

\* htmlTemplate.replace("</title>", ("</title>" + elementsStringToInject))
spliceElements(htmlTemplate, elementsString) ==
    StringReplace(htmlTemplate, TITLE_CLOSE, TITLE_CLOSE \o elementsString)

\* injectFilesToHtmlTemplate.  path.join and path.relative throw a TypeError
\* on an argument that is not a string, so an undefined outDir throws as soon
\* as one asset is mapped.  Returns [threw, value, elements].
injectFilesToHtmlTemplate(htmlTemplate, assets, outDir, publicPath, htmlFileConfiguration) ==
    IF outDir = UNDEFINED /\ assets /= <<>>
      THEN [threw |-> TRUE, value |-> <<>>, elements |-> <<>>]
    ELSE LET elements == elementsToInject(assets, outDir, publicPath, htmlFileConfiguration)
         IN [threw |-> FALSE,
             value |-> spliceElements(htmlTemplate, elementsStringToInject(elements)),
             elements |-> elements]

---------------------------------------------------------------------------
(* The plugin as a state machine *)

VARIABLES
    configuration,        \* configuration.files, with the defaults set
    initialOptions,       \* build.initialOptions
    result,               \* result.metafile of the build that ended
    pc,                   \* where the callbacks stand
    index,                \* the position in configuration.files of the loop of onEnd
    collectedEntrypoints, \* of the file configuration being processed
    collectedOutputFiles, \* of the file configuration being processed
    htmlTemplate,         \* the rendered template
    elements,             \* the [scriptElement, linkCssElement] pairs of the last injection
    modifiedHtmlTemplate, \* the result of the last injection
    rendered,             \* the positions of the file configurations rendered so far
    dirs,                 \* the directories of the fs.promises.mkdir calls that succeeded
    disk,                 \* the fs.promises.writeFile calls that succeeded, in order
    thrown,               \* the message of the error thrown, or NONE
    logInfo,              \* the closure variable logInfo
    anchor,               \* the entrypoint given to findNameRelatedOutputFiles
    related               \* what findNameRelatedOutputFiles returned

vars == <<configuration, initialOptions, result, pc, index, collectedEntrypoints,
          collectedOutputFiles, htmlTemplate, elements, modifiedHtmlTemplate,
          rendered, dirs, disk, thrown, logInfo, anchor, related>>

\* the variables one run of the loop body of onEnd works on
locals == <<collectedEntrypoints, collectedOutputFiles, htmlTemplate, elements,
            modifiedHtmlTemplate>>

NoAnchor == [path |-> <<>>, entryPoint |-> NONE, cssBundle |-> UNDEFINED]

\* the template files that exist (fs.existsSync), with their contents
TEMPLATE_PATH == <<"t", ".", "h", "t", "m", "l">>
FILE_TEMPLATE == <<"<", "t", "i", "t", "l", "e", ">", "f", "<", "/", "t", "i", "t", "l", "e", ">">>
TemplateFiles == [p \in {TEMPLATE_PATH} |-> FILE_TEMPLATE]

\* onStart
OnStart ==
    /\ pc = "idle"
    /\ IF ~initialOptions.metafile
         THEN pc' = "startThrew" /\ thrown' = "metafile is not enabled"
       ELSE IF ~Truthy(initialOptions.outdir)
         THEN pc' = "startThrew" /\ thrown' = "outdir must be set"
       ELSE pc' = "started" /\ thrown' = thrown
    /\ UNCHANGED <<configuration, initialOptions, result, index, locals, rendered,
                   dirs, disk, logInfo, anchor, related>>

\* The head of one iteration of the loop of onEnd, up to the call of
\* renderTemplate (the first await): the entry points are collected and expanded.
\* Past the last file configuration the loop ends and onEnd returns.
BeginIteration(i, metafile) ==
    IF i > Len(configuration)
    THEN /\ pc' = "done"
         /\ index' = i
         /\ UNCHANGED <<locals, rendered>>
    ELSE LET htmlFileConfiguration == configuration[i]
             entrypoints == collectEntrypoints(htmlFileConfiguration, metafile)
         IN /\ pc' = "renderTemplate"
            /\ index' = i
            /\ collectedEntrypoints' = entrypoints
            /\ collectedOutputFiles' =
                   collectOutputFiles(htmlFileConfiguration, entrypoints, metafile,
                                      initialOptions.entryNames, <<>>)
            /\ rendered' = Append(rendered, i)
            /\ UNCHANGED <<htmlTemplate, elements, modifiedHtmlTemplate>>

\* onEnd is called when the build ends, also when it ended with errors (an
\* error thrown by onStart is one): result.metafile is then undefined.
OnEnd(metafile) ==
    /\ pc \in {"started", "startThrew"}
    /\ pc = "startThrew" => metafile = NoMetafile
    /\ result' = metafile
    /\ logInfo' = (logInfo \/ initialOptions.logLevel \in {"debug", "info"})
    /\ BeginIteration(1, metafile)
    /\ UNCHANGED <<configuration, initialOptions, dirs, disk, thrown, anchor, related>>

\* renderTemplate settles; on success the template is injected, the output
\* path joined and fs.promises.mkdir called
RenderTemplateSettled ==
    /\ pc = "renderTemplate"
    /\ LET htmlFileConfiguration == configuration[index]
           r == renderTemplate(htmlFileConfiguration, TemplateFiles)
           injected == injectFilesToHtmlTemplate(r.value, collectedOutputFiles,
                           initialOptions.outdir, initialOptions.publicPath,
                           htmlFileConfiguration)
       IN IF r.threw
            THEN /\ pc' = "threw"
                 /\ thrown' = "template error"
                 /\ UNCHANGED <<htmlTemplate, elements, modifiedHtmlTemplate>>
          ELSE IF injected.threw
            THEN /\ pc' = "threw"
                 /\ thrown' = "TypeError"
                 /\ htmlTemplate' = r.value
                 /\ UNCHANGED <<elements, modifiedHtmlTemplate>>
          ELSE /\ htmlTemplate' = r.value
               /\ elements' = injected.elements
               /\ modifiedHtmlTemplate' = injected.value
               \* posixJoin(outdir, filename) throws on an outdir that is no string
               /\ IF initialOptions.outdir = UNDEFINED
                    THEN pc' = "threw" /\ thrown' = "TypeError"
                  ELSE pc' = "mkdir" /\ thrown' = thrown
    /\ UNCHANGED <<configuration, initialOptions, result, index, collectedEntrypoints,
                   collectedOutputFiles, rendered, dirs, disk, logInfo, anchor, related>>

\* const out = posixJoin(outdir, htmlFileConfiguration.filename)
OutPath == posixJoin(initialOptions.outdir, configuration[index].filename)

\* a mkdir whose failure is caught and the loop goes on
MkdirSettledCaught(ok) ==
    /\ pc = "mkdir"
    /\ pc' = "writeFile"
    /\ dirs' = IF ok THEN dirs \cup {PathDirname(OutPath)} ELSE dirs
    /\ thrown' = IF ok THEN thrown ELSE "mkdir failed"
    /\ UNCHANGED <<configuration, initialOptions, result, index, locals, rendered,
                   disk, logInfo, anchor, related>>

\* fs.promises.mkdir settles: the directory exists, or the call failed
MkdirSettled(ok) ==
    /\ pc = "mkdir"
    /\ IF ok
         THEN /\ pc' = "writeFile"
              /\ dirs' = dirs \cup {PathDirname(OutPath)}
              /\ thrown' = thrown
       ELSE /\ pc' = "threw"
            /\ thrown' = "mkdir failed"
            /\ dirs' = dirs
    /\ UNCHANGED <<configuration, initialOptions, result, index, locals, rendered,
                   disk, logInfo, anchor, related>>

\* fs.promises.writeFile settles: the file is written, or the call failed
WriteFileSettled(ok) ==
    /\ pc = "writeFile"
    /\ IF ok
         THEN /\ pc' = "stat"
              /\ disk' = Append(disk, [out |-> OutPath, data |-> modifiedHtmlTemplate,
                                       target |-> index])
              /\ thrown' = thrown
       ELSE /\ pc' = "threw"
            /\ thrown' = "writeFile failed"
            /\ disk' = disk
    /\ UNCHANGED <<configuration, initialOptions, result, index, locals, rendered,
                   dirs, logInfo, anchor, related>>

\* fs.promises.stat settles; on success the loop goes to the next file configuration
StatSettled(ok) ==
    /\ pc = "stat"
    /\ IF ok
         THEN /\ BeginIteration(index + 1, result)
              /\ thrown' = thrown
       ELSE /\ pc' = "threw"
            /\ thrown' = "stat failed"
            /\ UNCHANGED <<index, locals, rendered>>
    /\ UNCHANGED <<configuration, initialOptions, result, dirs, disk, logInfo,
                   anchor, related>>

---------------------------------------------------------------------------
(* The inputs *)

MaxTargets == 2
MaxOutputs == 3
MaxAssets == 2

\* all sequences over S of length at most n
SeqsUpTo(S, n) == UNION {[1..k -> S] : k \in 0..n}

DistinctPaths(outputs) ==
    \A i, j \in 1..Len(outputs) : i /= j => outputs[i].path /= outputs[j].path

\* the metafiles whose outputs are at most n records of S; an output path is a
\* key of metafile.outputs, so no two records share one
MetafilesOver(S, n) ==
    {[defined |-> TRUE, outputs |-> o] : o \in {q \in SeqsUpTo(S, n) : DistinctPaths(q)}}

Output(path, entryPoint, cssBundle) ==
    [path |-> path, entryPoint |-> entryPoint, cssBundle |-> cssBundle]

E_APP == "src/app.ts"
E_OTHER == "src/other.ts"
E_MISSING == "src/missing.ts"

OUTDIR == <<"a", "s", "s", "e", "t", "s">>
APP_JS == <<"a", "s", "s", "e", "t", "s", "/", "a", "p", "p", "-", "A", "B", "2", "C", "3", "D", "4", "E", ".", "j", "s">>
APP_CSS == <<"a", "s", "s", "e", "t", "s", "/", "a", "p", "p", "-", "A", "B", "2", "C", "3", "D", "4", "E", ".", "c", "s", "s">>
OTHER_JS == <<"a", "s", "s", "e", "t", "s", "/", "o", "t", "h", "e", "r", "-", "Z", "Z", "2", "2", "2", "2", "2", "2", ".", "j", "s">>
LIB_APP_JS == <<"l", "i", "b", "/", "a", "s", "s", "e", "t", "s", "/", "a", "p", "p", "-", "Q", "Q", "Q", "Q", "Q", "Q", "Q", "Q", ".", "j", "s">>
APP_LOWER_JS == <<"a", "s", "s", "e", "t", "s", "/", "a", "p", "p", "-", "a", "b", "2", "c", "3", "d", "4", "e", ".", "j", "s">>
ENTRY_NAMES == <<"[", "d", "i", "r", "]", "/", "[", "n", "a", "m", "e", "]", "-", "[", "h", "a", "s", "h", "]">>
ENTRY_NAMES_FLAT == <<"[", "n", "a", "m", "e", "]", "-", "[", "h", "a", "s", "h", "]">>

INDEX_HTML == <<"i", "n", "d", "e", "x", ".", "h", "t", "m", "l">>
SUB_PAGE_HTML == <<"s", "u", "b", "/", "p", "a", "g", "e", ".", "h", "t", "m", "l">>
TITLE_TEMPLATE == <<"<", "t", "i", "t", "l", "e", ">", "t", "<", "/", "t", "i", "t", "l", "e", ">", "<", "p", ">">>
BAD_TEMPLATE == <<"<", "t", "i", "t", "l", "e", ">", "<", "%", "=", "x", "%", ">", "<", "/", "t", "i", "t", "l", "e", ">">>
DEFINE_VALUE == <<"v">>

FileConfiguration(filename, entryPoints, template, define, scriptLoading, css, out) ==
    [filename |-> filename, entryPoints |-> entryPoints, htmlTemplate |-> template,
     define |-> define, scriptLoading |-> scriptLoading,
     findRelatedCssFiles |-> css, findRelatedOutputFiles |-> out]

InitLocals ==
    /\ index = 0
    /\ collectedEntrypoints = <<>>
    /\ collectedOutputFiles = <<>>
    /\ htmlTemplate = <<>>
    /\ elements = <<>>
    /\ modifiedHtmlTemplate = <<>>
    /\ rendered = <<>>
    /\ dirs = {}
    /\ disk = <<>>
    /\ thrown = NONE
    /\ logInfo = FALSE
    /\ anchor = NoAnchor
    /\ related = <<>>

(* The plugin from setup to the end of one build *)

PipelineFileConfigurations ==
    {FileConfiguration(f, e, t[1], t[2], NONE, "unset", "unset") :
        f \in {INDEX_HTML, SUB_PAGE_HTML},
        e \in {<<E_APP>>, <<E_OTHER, E_APP>>, <<E_MISSING, E_APP>>},
        t \in {<<TITLE_TEMPLATE, UNDEFINED>>, <<BAD_TEMPLATE, DEFINE_VALUE>>}}

BuildOptions(metafile, outdir) ==
    [metafile |-> metafile, outdir |-> outdir, publicPath |-> UNDEFINED,
     entryNames |-> UNDEFINED, logLevel |-> NONE]

PipelineOptions ==
    {BuildOptions(m, o) : m \in BOOLEAN, o \in {UNDEFINED, OUTDIR}}

PipelineMetafiles ==
    {NoMetafile,
     [defined |-> TRUE,
      outputs |-> <<Output(APP_JS, E_APP, APP_CSS), Output(APP_CSS, NONE, UNDEFINED),
                    Output(OTHER_JS, E_OTHER, UNDEFINED)>>],
     [defined |-> TRUE,
      outputs |-> <<Output(OTHER_JS, E_OTHER, UNDEFINED), Output(APP_JS, E_APP, UNDEFINED)>>]}

Init ==
    /\ configuration \in {[i \in DOMAIN f |-> WithDefaults(f[i])] :
                             f \in SeqsUpTo(PipelineFileConfigurations, MaxTargets)}
    /\ initialOptions \in PipelineOptions
    /\ result = NoMetafile
    /\ pc = "idle"
    /\ InitLocals

Next ==
    \/ OnStart
    \/ \E metafile \in PipelineMetafiles : OnEnd(metafile)
    \/ RenderTemplateSettled
    \/ \E ok \in BOOLEAN : MkdirSettled(ok)
    \/ \E ok \in BOOLEAN : WriteFileSettled(ok)
    \/ \E ok \in BOOLEAN : StatSettled(ok)

Spec == Init /\ [][Next]_vars

---------------------------------------------------------------------------
(* onEnd up to its first await, on any metafile: collection and expansion *)

ExpandOutputs ==
    {Output(APP_JS, E_APP, UNDEFINED), Output(APP_JS, E_APP, APP_CSS),
     Output(APP_CSS, NONE, UNDEFINED), Output(APP_CSS, E_OTHER, UNDEFINED),
     Output(OTHER_JS, E_OTHER, UNDEFINED), Output(OTHER_JS, E_OTHER, APP_CSS),
     Output(OTHER_JS, NONE, UNDEFINED), Output(LIB_APP_JS, NONE, UNDEFINED)}

ExpandMetafiles == MetafilesOver(ExpandOutputs, MaxOutputs)

ExpandFileConfigurations ==
    {FileConfiguration(INDEX_HTML, e, TITLE_TEMPLATE, UNDEFINED, NONE, css, out) :
        e \in {<<E_APP>>, <<E_APP, E_OTHER>>, <<E_OTHER, E_APP>>, <<E_MISSING>>},
        css \in {"unset", "false"},
        out \in {"unset", "true"}}

InitExpand ==
    /\ configuration \in {<<WithDefaults(f)>> : f \in ExpandFileConfigurations}
    /\ initialOptions \in {[BuildOptions(TRUE, OUTDIR) EXCEPT !.entryNames = n] :
                              n \in {UNDEFINED, ENTRY_NAMES}}
    /\ result = NoMetafile
    /\ pc = "started"
    /\ InitLocals

NextExpand == \E metafile \in ExpandMetafiles : OnEnd(metafile)

SpecExpand == InitExpand /\ [][NextExpand]_vars

---------------------------------------------------------------------------
(* findNameRelatedOutputFiles as a function *)

RelatedOutputs ==
    {Output(p, NONE, UNDEFINED) : p \in {APP_JS, APP_CSS, OTHER_JS, LIB_APP_JS, APP_LOWER_JS}}

FindNameRelatedOutputFilesCall ==
    /\ pc = "findNameRelatedOutputFiles"
    /\ related' = findNameRelatedOutputFiles(anchor, result, initialOptions.entryNames)
    /\ pc' = "returned"
    /\ UNCHANGED <<configuration, initialOptions, result, index, locals, rendered,
                   dirs, disk, thrown, logInfo, anchor>>

InitRelated ==
    /\ configuration = <<>>
    /\ initialOptions \in {[BuildOptions(TRUE, OUTDIR) EXCEPT !.entryNames = n] :
                              n \in {UNDEFINED, ENTRY_NAMES, ENTRY_NAMES_FLAT}}
    /\ result \in MetafilesOver(RelatedOutputs, MaxOutputs)
    /\ pc = "findNameRelatedOutputFiles"
    /\ index = 0
    /\ collectedEntrypoints = <<>>
    /\ collectedOutputFiles = <<>>
    /\ htmlTemplate = <<>>
    /\ elements = <<>>
    /\ modifiedHtmlTemplate = <<>>
    /\ rendered = <<>>
    /\ dirs = {}
    /\ disk = <<>>
    /\ thrown = NONE
    /\ logInfo = FALSE
    /\ anchor \in {result.outputs[i] : i \in 1..Len(result.outputs)}
    /\ related = <<>>

NextRelated == FindNameRelatedOutputFilesCall

SpecRelated == InitRelated /\ [][NextRelated]_vars

---------------------------------------------------------------------------
(* injectFilesToHtmlTemplate as a function *)

DOLLAR_JS == <<"a", "s", "s", "e", "t", "s", "/", "$", "$", ".", "j", "s">>
LOGO_PNG == <<"a", "s", "s", "e", "t", "s", "/", "l", "o", "g", "o", ".", "p", "n", "g">>
PUBLIC_PATH == <<"/", "s", "t", "a", "t", "i", "c">>
NO_TITLE_TEMPLATE == <<"<", "p", ">", "t", "i", "t", "l", "e", "<", "/", "p", ">">>
TWO_TITLES_TEMPLATE == <<"a", "<", "/", "t", "i", "t", "l", "e", ">", "b", "<", "/", "t", "i", "t", "l", "e", ">", "c">>

InjectAssets ==
    {Output(p, NONE, UNDEFINED) : p \in {APP_JS, APP_CSS, DOLLAR_JS, LOGO_PNG}}

InjectTemplates ==
    {defaultHtmlTemplate, NO_TITLE_TEMPLATE, TITLE_TEMPLATE, TWO_TITLES_TEMPLATE}

InjectFileConfigurations ==
    {FileConfiguration(f, <<E_APP>>, UNDEFINED, UNDEFINED, mode, "unset", "unset") :
        f \in {INDEX_HTML, SUB_PAGE_HTML},
        mode \in {NONE, "blocking", "defer", "module"}}

InjectFilesToHtmlTemplateCall ==
    /\ pc = "injectFilesToHtmlTemplate"
    /\ LET injected == injectFilesToHtmlTemplate(htmlTemplate, collectedOutputFiles,
                           initialOptions.outdir, initialOptions.publicPath,
                           configuration[1])
       IN IF injected.threw
            THEN /\ pc' = "threw"
                 /\ thrown' = "TypeError"
                 /\ UNCHANGED <<elements, modifiedHtmlTemplate>>
          ELSE /\ pc' = "returned"
               /\ thrown' = thrown
               /\ elements' = injected.elements
               /\ modifiedHtmlTemplate' = injected.value
    /\ UNCHANGED <<configuration, initialOptions, result, index, collectedEntrypoints,
                   collectedOutputFiles, htmlTemplate, rendered, dirs, disk, logInfo,
                   anchor, related>>

InitInject ==
    /\ configuration \in {<<WithDefaults(f)>> : f \in InjectFileConfigurations}
    /\ initialOptions \in {[BuildOptions(TRUE, OUTDIR) EXCEPT !.publicPath = pp] :
                              pp \in {UNDEFINED, PUBLIC_PATH}}
    /\ result = NoMetafile
    /\ pc = "injectFilesToHtmlTemplate"
    /\ index = 1
    /\ collectedEntrypoints = <<>>
    /\ collectedOutputFiles \in SeqsUpTo(InjectAssets, MaxAssets)
    /\ htmlTemplate \in InjectTemplates
    /\ elements = <<>>
    /\ modifiedHtmlTemplate = <<>>
    /\ rendered = <<>>
    /\ dirs = {}
    /\ disk = <<>>
    /\ thrown = NONE
    /\ logInfo = FALSE
    /\ anchor = NoAnchor
    /\ related = <<>>

NextInject == InjectFilesToHtmlTemplateCall

SpecInject == InitInject /\ [][NextInject]_vars

---------------------------------------------------------------------------
(* Properties *)

Range(f) == {f[i] : i \in DOMAIN f}
Paths(assets) == [i \in DOMAIN assets |-> assets[i].path]
Count(seq, x) == Cardinality({i \in DOMAIN seq : seq[i] = x})

\* every entry point the file configuration lists is the entryPoint of an output
EveryEntryPointMatched(htmlFileConfiguration, metafile) ==
    \A e \in Range(htmlFileConfiguration.entryPoints) :
        \E o \in Range(Outputs(metafile)) : o.entryPoint = e

\* C1: the HTML of a file configuration is written only if every entry point
\* it lists matched an output; a file configuration with an unmatched entry
\* point makes the run fail, so the run never completes with one.
C1_WrittenOnlyIfEveryEntryPointMatched ==
    /\ \A j \in DOMAIN disk :
          EveryEntryPointMatched(configuration[disk[j].target], result)
    /\ pc = "done" =>
          \A i \in DOMAIN configuration : EveryEntryPointMatched(configuration[i], result)

\* C5: with the metafile not enabled or no outdir set, onEnd collects, renders,
\* creates and writes nothing.
C5_NothingTouchedWithoutMetafileOrOutdir ==
    (~initialOptions.metafile \/ ~Truthy(initialOptions.outdir)) =>
        /\ rendered = <<>>
        /\ dirs = {}
        /\ disk = <<>>

\* an error was thrown while onEnd processed a file configuration
OnEndFailed ==
    thrown \in {"template error", "TypeError", "mkdir failed", "writeFile failed",
                "stat failed"}

\* C9: the file configurations are processed one at a time in the configured
\* order, the next one beginning only after the write of the one before it, and
\* once processing one of them has failed nothing more is begun, created or
\* written.
C9_InOrderAndNoContinuation ==
    /\ [](/\ rendered = [i \in 1..Len(rendered) |-> i]
          /\ \A j \in DOMAIN disk : disk[j].target = j
          /\ Len(disk) <= Len(rendered)
          /\ Len(rendered) <= Len(disk) + 1
          /\ (OnEndFailed => pc = "threw"))
    /\ [][OnEndFailed => (rendered' = rendered /\ disk' = disk /\ dirs' = dirs)]_vars

\* C9: processing the first of two file configurations failed at its write
C9_Witness ==
    /\ pc = "threw"
    /\ thrown = "writeFile failed"
    /\ Len(configuration) = 2
    /\ rendered = <<1>>
    /\ disk = <<>>

\* C4: no output path occurs twice in the assets handed to injection.
C4_NoPathTwice ==
    pc = "renderTemplate" =>
        \A i, j \in DOMAIN collectedOutputFiles :
            i /= j => collectedOutputFiles[i].path /= collectedOutputFiles[j].path

\* C7: with findRelatedCssFiles on and a single matched anchor that carries a
\* cssBundle, the assets contain the cssBundle path exactly once.
C7_CssBundleExactlyOnce ==
    (/\ pc = "renderTemplate"
     /\ Len(collectedEntrypoints) = 1
     /\ configuration[index].findRelatedCssFiles
     /\ Truthy(collectedEntrypoints[1].cssBundle))
    => Count(Paths(collectedOutputFiles), collectedEntrypoints[1].cssBundle) = 1

\* C7: the default of findRelatedCssFiles applies, findRelatedOutputFiles is on
\* and the pattern match finds the cssBundle path too
C7_Witness ==
    /\ pc = "renderTemplate"
    /\ Len(collectedEntrypoints) = 1
    /\ configuration[index].findRelatedCssFiles
    /\ configuration[index].findRelatedOutputFiles
    /\ Truthy(initialOptions.entryNames)
    /\ Truthy(collectedEntrypoints[1].cssBundle)
    /\ collectedEntrypoints[1].cssBundle \in
          Range(Paths(findNameRelatedOutputFiles(collectedEntrypoints[1], result,
                                                 initialOptions.entryNames)))

\* the outputs whose entryPoint the file configuration lists, in the order of the metafile
RECURSIVE InOrder(_, _)
InOrder(outputs, positions) ==
    IF positions = {} THEN <<>>
    ELSE LET m == CHOOSE i \in positions : \A j \in positions : i <= j
         IN <<outputs[m]>> \o InOrder(outputs, positions \ {m})

MatchedInMetadataOrder(htmlFileConfiguration, metafile) ==
    LET outputs == Outputs(metafile)
    IN InOrder(outputs, {i \in DOMAIN outputs :
                            outputs[i].entryPoint \in Range(htmlFileConfiguration.entryPoints)})

\* asset is a sibling the anchor contributes: its cssBundle or another output
IsSiblingOf(asset, a, metafile) ==
    /\ asset.path /= a.path
    /\ \/ asset.path = a.cssBundle
       \/ asset \in Range(Outputs(metafile))

\* assets[pos..] is, for each of anchors[a..], the anchor followed by siblings of it
RECURSIVE AnchorsThenSiblings(_, _, _, _, _)
AnchorsThenSiblings(assets, anchors, metafile, a, pos) ==
    /\ pos <= Len(assets)
    /\ assets[pos] = anchors[a]
    /\ \E last \in pos..Len(assets) :
          /\ \A m \in (pos + 1)..last : IsSiblingOf(assets[m], anchors[a], metafile)
          /\ IF a = Len(anchors) THEN last = Len(assets)
             ELSE AnchorsThenSiblings(assets, anchors, metafile, a + 1, last + 1)

\* C10: the matched anchors are in the order of the metafile, whatever the
\* order of entryPoints, and the assets are, anchor by anchor in that order, the
\* anchor followed by the siblings it contributes.
C10_MetadataOrderAnchorFirst ==
    pc = "renderTemplate" =>
        LET anchors == MatchedInMetadataOrder(configuration[index], result)
        IN /\ collectedEntrypoints = anchors
           /\ IF anchors = <<>> THEN collectedOutputFiles = <<>>
              ELSE AnchorsThenSiblings(collectedOutputFiles, anchors, result, 1, 1)

\* C10: entryPoints lists other.ts before app.ts, the metafile has the output of
\* app.ts first, and an anchor brings a sibling
C10_Witness ==
    /\ pc = "renderTemplate"
    /\ configuration[index].entryPoints = <<E_OTHER, E_APP>>
    /\ Len(collectedEntrypoints) = 2
    /\ collectedEntrypoints[1].entryPoint = E_APP
    /\ collectedEntrypoints[2].entryPoint = E_OTHER
    /\ Len(collectedOutputFiles) > 2

\* path.parse(path) without the extension, as findNameRelatedOutputFiles joins it
Stem(path) == posixJoin(PathParse(path).dir, PathParse(path).name)

\* the [dir] and [name] that the naming template extracts from a path
Extracted(path, entryNames) ==
    RegExpExec(CompileRegExp(findVariablesRegexString(entryNames)), Stem(path))

\* C8: with a naming template, an output is reported as related to the anchor
\* if and only if the template extracts from it the [dir] and the [name] it
\* extracts from the anchor.
C8_RelatedIffSameDirAndName ==
    (/\ pc = "returned"
     /\ Truthy(initialOptions.entryNames)
     /\ Extracted(anchor.path, initialOptions.entryNames).ok)
    => \A o \in Range(Outputs(result)) :
          (o \in Range(related)) <=>
             LET mine == Extracted(anchor.path, initialOptions.entryNames)
                 its == Extracted(o.path, initialOptions.entryNames)
             IN its.ok /\ its.name = mine.name /\ its.dir = mine.dir

SCRIPT_PLAIN_END == "\"></script>"

\* C2: an asset whose extension is .js gets one script tag in every mode of
\* scriptLoading: type="module" for module, defer for defer or unset, neither
\* attribute for blocking.
C2_ScriptTagInEveryMode ==
    pc = "returned" =>
        \A i \in DOMAIN collectedOutputFiles :
            PathParse(collectedOutputFiles[i].path).ext = EXT_JS =>
                LET tag == elements[i][1]
                    mode == configuration[1].scriptLoading
                IN /\ tag /= <<>>
                   /\ Head(tag) = SCRIPT_SRC
                   /\ mode = "module" => tag[Len(tag)] = SCRIPT_MODULE_END
                   /\ mode \in {NONE, "defer"} => tag[Len(tag)] = SCRIPT_DEFER_END
                   /\ mode = "blocking" => tag[Len(tag)] = SCRIPT_PLAIN_END

\* the tags of the last injection, concatenated
Tags == Flatten(Flatten(elements))

\* a replacement pattern of String.prototype.replace occurs in str
HasReplacementPattern(str) ==
    \E k \in 1..(Len(str) - 1) : str[k] = "$" /\ str[k + 1] \in {"$", "&", GRAVE, APOS}

BeforeTitleClose(template) == SubSeq(template, 1, IndexOf(template, TITLE_CLOSE) - 1)
AfterTitleClose(template) ==
    SubSeq(template, IndexOf(template, TITLE_CLOSE) + Len(TITLE_CLOSE), Len(template))

C6_UnchangedWithoutTitleClose ==
    (pc \in {"returned", "threw"} /\ ~Includes(htmlTemplate, TITLE_CLOSE)) =>
        /\ pc = "returned"
        /\ thrown = NONE
        /\ modifiedHtmlTemplate = htmlTemplate

\* C6: tags were computed for a template without </title>
C6_Witness ==
    /\ pc = "returned"
    /\ ~Includes(htmlTemplate, TITLE_CLOSE)
    /\ Tags /= <<>>
    /\ modifiedHtmlTemplate = htmlTemplate

=============================================================================
